---------------------------- MODULE Spec2Model ----------------------------
(***************************************************************************)
(* Subito subnetting tool: the calculation core (subito/calc.py) and the   *)
(* validation core (subito/validation.py).                                 *)
(*                                                                         *)
(* Every function of the core is a synchronous call.  A call is modelled   *)
(* as one action that takes the caller's arguments from the state and      *)
(* leaves the returned value or the raised exception, and the caller's     *)
(* (mutable) list argument, in the state.                                  *)
(*                                                                         *)
(* Python values: a str is a sequence of one-character strings, a list is  *)
(* a sequence, an exception is the name of its class.  Integers that hold  *)
(* an IPv4 address do not fit the model checker's machine integers; they   *)
(* are kept as <<hi, lo>> with value hi * 65536 + lo and 0 <= lo < 65536.  *)
(***************************************************************************)
EXTENDS Integers, Sequences, FiniteSets, TLC

VARIABLES
    pc,                               \* "ready" before the call, "done" after
    orig_prefix,                      \* investigate_network_block_fit: argument
    required_host_blocks_len,         \* investigate_network_block_fit: the caller's list
    has_investigation_been_successful,\* investigate_network_block_fit: result [0]
    faulty_host_blocks,               \* investigate_network_block_fit: result [1]
    user_config_str,                  \* get_host_blocks: argument
    final_host_blocks,                \* get_host_blocks: returned list
    ip,                               \* convert_ip_addr_to_octet_notation_str: argument
    ip_addr_octet_str,                \* convert_ip_addr_to_octet_notation_str: result
    ip_int,                           \* convert_ip_octet_notation_str_to_int: result
    orig_ip,                          \* create_subnets: argument
    host_blocks_len,                  \* create_subnets: the caller's list
    final_subnets,                    \* create_subnets: returned list of dicts
    raised_message,                   \* create_subnets: message of the exception raised
    prefix_arg,                       \* convert_prefix_to_mask: argument
    netmask,                          \* is_netmask_well_formed, convert_mask_to_prefix: argument
    is_netmask_ok,                    \* is_netmask_well_formed: result
    mask_prefix,                      \* convert_mask_to_prefix: result
    is_special_use_case,              \* investigate_special_use: result [0]
    is_apt_for_subnetting,            \* investigate_special_use: result [1]
    description,                      \* investigate_special_use: result [2]
    orig_addr_class,                  \* get_addr_class: result [0]
    class_prefix,                     \* get_addr_class: result [1]
    raised                            \* class of the exception raised, "None" if none

fitVars == <<orig_prefix, required_host_blocks_len,
             has_investigation_been_successful, faulty_host_blocks>>

parseVars == <<user_config_str, final_host_blocks>>

codecVars == <<ip, ip_addr_octet_str, ip_int>>

buildVars == <<orig_ip, host_blocks_len, final_subnets, raised_message>>

maskVars == <<prefix_arg, netmask, is_netmask_ok, mask_prefix>>

gateVars == <<is_special_use_case, is_apt_for_subnetting, description,
              orig_addr_class, class_prefix>>

vars == <<pc, raised, fitVars, parseVars, codecVars, buildVars, maskVars, gateVars>>

---------------------------------------------------------------------------
(* Bounds of the model.                                                    *)

\* longest block list handed to the fit analysis
MaxBlocks == 4
\* largest host block length (bits) in a block list
MaxBlockLen == 5
\* the prefixes tried are 7, 8 and (31 - PrefixSpan) .. 31
PrefixSpan == 5
\* most tokens in a configuration string
MaxTokens == 2
\* most 8-character pieces in a string handed to the address conversion
MaxPieces == 4
\* longest block list handed to create_subnets
MaxBuildBlocks == 3

---------------------------------------------------------------------------
(* Python built-ins used by the source.                                    *)

Pow2(n) == 2 ^ n

\* int.bit_length() for n >= 0
RECURSIVE BitLength(_)
BitLength(n) == IF n = 0 THEN 0 ELSE 1 + BitLength(n \div 2)

\* len(bin(n)[2:]) for n >= 0: bin(0) is "0b0", one digit
BinLen(n) == IF n = 0 THEN 1 ELSE BitLength(n)

\* list.count(x)
\* list.count(x) with one occurrence too many
Count_PlusOne(list, x) == Cardinality({i \in DOMAIN list : list[i] = x}) + 1

Count(list, x) == Cardinality({i \in DOMAIN list : list[i] = x})

\* insertion of x into a descending list, before the first smaller element
RECURSIVE InsertDesc(_, _)
InsertDesc(x, list) ==
    IF list = <<>> THEN <<x>>
    ELSE IF x >= Head(list) THEN <<x>> \o list
    ELSE <<Head(list)>> \o InsertDesc(x, Tail(list))

\* list.sort(reverse=True) on a list of int
RECURSIVE SortDesc(_)
SortDesc(list) ==
    IF list = <<>> THEN <<>> ELSE InsertDesc(Head(list), SortDesc(Tail(list)))

\* all lists over S of length 0 .. n
ListsUpTo(S, n) == UNION {[1..k -> S] : k \in 0..n}

\* the decimal digits, str.isdigit() of one character
DigitChars == <<"0", "1", "2", "3", "4", "5", "6", "7", "8", "9">>

IsDigit(c) == \E i \in 1..10 : DigitChars[i] = c

DigitVal(c) == (CHOOSE i \in 1..10 : DigitChars[i] = c) - 1

\* int(s) for a str of decimal digits
RECURSIVE IntOfDec(_)
IntOfDec(s) ==
    IF s = <<>> THEN 0
    ELSE 10 * IntOfDec(SubSeq(s, 1, Len(s) - 1)) + DigitVal(s[Len(s)])

\* str(n) for n >= 0
RECURSIVE Dec(_)
Dec(n) == IF n < 10 THEN <<DigitChars[n + 1]>>
          ELSE Dec(n \div 10) \o <<DigitChars[(n % 10) + 1]>>

\* sep.join(parts)
RECURSIVE Join(_, _)
Join(sep, parts) ==
    IF parts = <<>> THEN <<>>
    ELSE IF Len(parts) = 1 THEN parts[1]
    ELSE parts[1] \o sep \o Join(sep, Tail(parts))

---------------------------------------------------------------------------
(* validation.investigate_network_block_fit                                *)

\* FaultOfEntry with the tie-break dropped: >= for the smallest block too
FaultOfEntry_NoTieBreak(prefix, sorted, n) ==
    LET required_host_block_len == sorted[n + 1]
        required_subnets_of_this_type == Count(sorted, required_host_block_len)
        required_prefix == 32 - required_host_block_len
        available_subnets_of_this_type ==
            IF required_prefix <= prefix THEN 0 ELSE Pow2(required_prefix - prefix)
        available_subnetting_block_len ==
            IF required_prefix <= prefix THEN 0
            ELSE BinLen(available_subnets_of_this_type - 1)
    IN  IF required_prefix < prefix
        THEN <<n + 1, required_host_block_len, prefix - required_prefix,
               available_subnetting_block_len, 0>>
        ELSE IF required_subnets_of_this_type >= available_subnets_of_this_type
        THEN <<n + 1, required_host_block_len, 0, available_subnetting_block_len,
               BinLen(required_subnets_of_this_type - 1) - available_subnetting_block_len>>
        ELSE <<>>

\* the tuple appended for entry n (0-based) of the sorted list, or <<>> when
\* the entry is not faulty (validation.py lines 107-143)
FaultOfEntry(prefix, sorted, n) ==
    LET required_host_block_len == sorted[n + 1]
        shortest_host_block_len == sorted[Len(sorted)]
        required_subnets_of_this_type == Count(sorted, required_host_block_len)
        required_prefix == 32 - required_host_block_len
        required_subnetting_block_len == BinLen(required_subnets_of_this_type - 1)
        available_subnets_of_this_type ==
            IF required_prefix <= prefix THEN 0 ELSE Pow2(required_prefix - prefix)
        available_subnetting_block_len ==
            IF required_prefix <= prefix THEN 0
            ELSE BinLen(available_subnets_of_this_type - 1)
    IN  IF required_prefix < prefix
        THEN <<n + 1, required_host_block_len, prefix - required_prefix,
               available_subnetting_block_len, 0>>
        ELSE IF \/ /\ required_subnets_of_this_type >= available_subnets_of_this_type
                   /\ required_host_block_len > shortest_host_block_len
                \/ /\ required_subnets_of_this_type > available_subnets_of_this_type
                   /\ required_host_block_len = shortest_host_block_len
        THEN <<n + 1, required_host_block_len, 0, available_subnetting_block_len,
               required_subnetting_block_len - available_subnetting_block_len>>
        ELSE <<>>

\* the loop appending one tuple per block size, not one per entry
RECURSIVE FaultyUpTo_OncePerSize(_, _, _)
FaultyUpTo_OncePerSize(prefix, sorted, k) ==
    IF k = 0 THEN <<>>
    ELSE FaultyUpTo_OncePerSize(prefix, sorted, k - 1)
         \o (IF (k > 1 /\ sorted[k] = sorted[k - 1])
                 \/ FaultOfEntry(prefix, sorted, k - 1) = <<>>
             THEN <<>> ELSE <<FaultOfEntry(prefix, sorted, k - 1)>>)

\* the faulty_host_blocks list built by the loop over entries 0 .. k-1
RECURSIVE FaultyUpTo(_, _, _)
FaultyUpTo(prefix, sorted, k) ==
    IF k = 0 THEN <<>>
    ELSE LET f == FaultOfEntry(prefix, sorted, k - 1)
         IN  FaultyUpTo(prefix, sorted, k - 1) \o (IF f = <<>> THEN <<>> ELSE <<f>>)

\* the argument checks of lines 96-99 with block lengths of 1 bit let through
FitArgumentError_OneBitAllowed(prefix, list) ==
    IF ~(prefix \in 8..30) THEN "ValueError"
    ELSE IF Len(list) < 2 THEN "ValueError"
    ELSE IF \E i \in DOMAIN list : list[i] < 1 THEN "ValueError"
    ELSE "None"

\* the argument checks of lines 96-99: the exception raised, or "None"
FitArgumentError(prefix, list) ==
    IF ~(prefix \in 8..30) THEN "ValueError"
    ELSE IF Len(list) < 2 THEN "ValueError"
    ELSE IF \E i \in DOMAIN list : list[i] < 2 THEN "ValueError"
    ELSE "None"

\* the in-place sort of line 102: the caller's list after the call
ListAfterFit(prefix, list) ==
    IF FitArgumentError(prefix, list) = "None" THEN SortDesc(list) ELSE list

\* the whole call: exception, caller's list afterwards, returned pair
investigate_network_block_fit(prefix, list) ==
    LET err == FitArgumentError(prefix, list)
        after == ListAfterFit(prefix, list)
        faulty == IF err = "None" THEN FaultyUpTo(prefix, after, Len(after)) ELSE <<>>
        \* has_investigation_been_successful: set False in either faulty branch
        flag == /\ err = "None"
                /\ \A n \in 0 .. Len(after) - 1 : FaultOfEntry(prefix, after, n) = <<>>
    IN  [raised |-> err, list |-> after, ok |-> flag, faulty |-> faulty]

---------------------------------------------------------------------------
(* calc.get_host_blocks                                                    *)

\* last index of the run of digits that starts at s[i] (s[i] is a digit)
RECURSIVE DigitRunEnd(_, _)
DigitRunEnd(s, i) ==
    IF i < Len(s) /\ IsDigit(s[i + 1]) THEN DigitRunEnd(s, i + 1) ELSE i

\* a match of (\d+):(\d+)(?:x(\d+))? that starts at position i: the three
\* groups and the index of the last character matched, or <<>> when nothing
\* matches at i.  \d+ is greedy and must be followed by ":", so group 1 is
\* the whole run of digits; group 3 is "" when the optional part is absent.
MatchConfigAt(s, i) ==
    IF ~(i <= Len(s) /\ IsDigit(s[i])) THEN <<>>
    ELSE LET j == DigitRunEnd(s, i)
         IN  IF ~(j + 2 <= Len(s) /\ s[j + 1] = ":" /\ IsDigit(s[j + 2])) THEN <<>>
             ELSE LET k == DigitRunEnd(s, j + 2)
                  IN  IF k + 2 <= Len(s) /\ s[k + 1] = "x" /\ IsDigit(s[k + 2])
                      THEN LET m == DigitRunEnd(s, k + 2)
                           IN  <<SubSeq(s, i, j), SubSeq(s, j + 2, k),
                                 SubSeq(s, k + 2, m), m>>
                      ELSE <<SubSeq(s, i, j), SubSeq(s, j + 2, k), <<>>, k>>

\* config_filter.findall(user_config_str) from position i on: the leftmost
\* match, then the matches after its end
RECURSIVE FindAllConfigs(_, _)
FindAllConfigs(s, i) ==
    IF i > Len(s) THEN <<>>
    ELSE LET m == MatchConfigAt(s, i)
         IN  IF m = <<>> THEN FindAllConfigs(s, i + 1)
             ELSE <<SubSeq(m, 1, 3)>> \o FindAllConfigs(s, m[4] + 1)

\* host counts h below 1000 whose double product h * (55/100) lies above the
\* exact product, an integer, so that math.ceil gives one more
InexactAt55 ==
    {100, 180, 200, 220, 340, 360, 380, 400, 420, 440, 460, 660, 680, 700, 720,
     740, 760, 780, 800, 820, 840, 860, 880, 900, 920}

\* ceil(initial_host_count * (reserve_percent/100)) in IEEE-754 double
\* arithmetic, for the reserves 0 and 55 and host counts below 1000: the exact
\* ceiling, and one more where the rounded product overshoots an integer
CeilOfProduct(initial_host_count, reserve_percent) ==
    ((initial_host_count * reserve_percent + 99) \div 100)
        + (IF reserve_percent = 55 /\ initial_host_count \in InexactAt55 THEN 1 ELSE 0)

\* block_multiplier of one match: 1 unless group 3 is a digit string
BlockMultiplier(host_config) ==
    IF host_config[3] # <<>> THEN IntOfDec(host_config[3]) ELSE 1

\* final_host_block of one match (is_binary_block_len = True)
FinalHostBlock(host_config) ==
    LET initial_host_count == IntOfDec(host_config[1])
        reserve_percent == IntOfDec(host_config[2])
    IN  BinLen(initial_host_count + CeilOfProduct(initial_host_count, reserve_percent))

\* whether the loop body raises ValueError for this match
ConfigRaises(host_config) ==
    \/ IntOfDec(host_config[1]) < 2
    \/ BlockMultiplier(host_config) < 1

\* the list built by the loop over all matches (when no match raises)
RECURSIVE HostBlocksOf(_)
HostBlocksOf(configs) ==
    IF configs = <<>> THEN <<>>
    ELSE [i \in 1..BlockMultiplier(Head(configs)) |-> FinalHostBlock(Head(configs))]
             \o HostBlocksOf(Tail(configs))

\* the whole call: the exception raised and the returned list
get_host_blocks(str) ==
    LET configs_found == FindAllConfigs(str, 1)
    IN  IF Len(configs_found) = 0 THEN [raised |-> "ValueError", blocks |-> <<>>]
        ELSE IF \E i \in DOMAIN configs_found : ConfigRaises(configs_found[i])
        THEN [raised |-> "ValueError", blocks |-> <<>>]
        ELSE IF Len(HostBlocksOf(configs_found)) < 2
        THEN [raised |-> "ValueError", blocks |-> <<>>]
        ELSE [raised |-> "None", blocks |-> SortDesc(HostBlocksOf(configs_found))]

---------------------------------------------------------------------------
(* Strings of bits and integers that hold an address.                      *)

\* bin(n)[2:] for a machine integer n >= 0
RECURSIVE Bin(_)
Bin(n) == IF n < 2 THEN <<DigitChars[n + 1]>>
          ELSE Bin(n \div 2) \o <<DigitChars[(n % 2) + 1]>>

\* s.rjust(width, fill)
RJust(s, width, fill) ==
    IF Len(s) >= width THEN s ELSE [i \in 1..(width - Len(s)) |-> fill] \o s

\* the value of a str of "0" and "1" that fits a machine integer
RECURSIVE IntOfBin(_)
IntOfBin(s) ==
    IF s = <<>> THEN 0
    ELSE 2 * IntOfBin(SubSeq(s, 1, Len(s) - 1)) + DigitVal(s[Len(s)])

\* s.strip() of blanks, which int() does first
RECURSIVE Strip(_)
Strip(s) ==
    IF s = <<>> THEN s
    ELSE IF Head(s) = " " THEN Strip(Tail(s))
    ELSE IF s[Len(s)] = " " THEN Strip(SubSeq(s, 1, Len(s) - 1))
    ELSE s

\* whether t is one or more binary digits
IsBinDigits(t) == t # <<>> /\ \A i \in DOMAIN t : t[i] \in {"0", "1"}

\* whether int(s, 2) accepts s, for s over the characters "0", "1", "2", " ":
\* binary digits, with blanks around them
IsBase2Literal(s) == IsBinDigits(Strip(s))

\* the value of binary digits t, as <<hi, lo>>
IntOfBinDigits(t) ==
    IF Len(t) <= 16 THEN <<0, IntOfBin(t)>>
    ELSE <<IntOfBin(SubSeq(t, 1, Len(t) - 16)),
           IntOfBin(SubSeq(t, Len(t) - 15, Len(t)))>>

\* int(s, 2) of an accepted s, as <<hi, lo>>
IntBase2(s) == IntOfBinDigits(Strip(s))

\* bin(a)[2:] of an integer a = <<hi, lo>> >= 0
BinOfInt(a) ==
    IF a[1] = 0 THEN Bin(a[2]) ELSE Bin(a[1]) \o RJust(Bin(a[2]), 16, "0")

\* a + n for an integer a = <<hi, lo>> and a machine integer n
AddInt(a, n) == <<a[1] + ((a[2] + n) \div 65536), (a[2] + n) % 65536>>

\* s.split(sep) for a one-character separator
RECURSIVE SplitOn(_, _)
SplitOn(s, sep) ==
    IF \A i \in DOMAIN s : s[i] # sep THEN <<s>>
    ELSE LET k == CHOOSE i \in DOMAIN s :
                      s[i] = sep /\ \A j \in 1..(i - 1) : s[j] # sep
         IN  <<SubSeq(s, 1, k - 1)>> \o SplitOn(SubSeq(s, k + 1, Len(s)), sep)

\* findall of ^(\d{1,3})\.(\d{1,3})\.(\d{1,3})\.(\d{1,3})$: the four groups
\* of the one match, or <<>> when the string does not match
MatchOctets(s) ==
    LET parts == SplitOn(s, ".")
    IN  IF /\ Len(parts) = 4
           /\ \A i \in 1..4 : /\ Len(parts[i]) \in 1..3
                              /\ \A j \in DOMAIN parts[i] : IsDigit(parts[i][j])
        THEN parts ELSE <<>>

\* ''.join([bin(int(octet))[2:].rjust(8, '0') for octet in groups])
OctetsBinStr(groups) ==
    Join(<<>>, [i \in DOMAIN groups |-> RJust(Bin(IntOfDec(groups[i])), 8, "0")])

---------------------------------------------------------------------------
(* validation.is_ipaddr_well_formed, calc.convert_ip_octet_notation_str_to_int, *)
(* calc.convert_ip_addr_to_octet_notation_str                              *)

is_ipaddr_well_formed(ipaddr) ==
    LET octets_found == MatchOctets(ipaddr)
    IN  IF octets_found # <<>> THEN Len(OctetsBinStr(octets_found)) = 32 ELSE FALSE

\* the exception raised and the integer returned, as <<hi, lo>>
convert_ip_octet_notation_str_to_int(ip_str) ==
    IF ~is_ipaddr_well_formed(ip_str) THEN [raised |-> "ValueError", int |-> <<0, 0>>]
    ELSE [raised |-> "None", int |-> IntBase2(OctetsBinStr(MatchOctets(ip_str)))]

\* [str(int(s[n:n+8], 2)) for n in range(0, 24 + 1, 8)] joined with ".", or
\* <<>> when int() raises ValueError for a slice
OctetNotationOfSlices(slices) ==
    IF \E k \in 1..4 : ~IsBase2Literal(slices[k]) THEN <<>>
    ELSE Join(<<".">>, [k \in 1..4 |-> Dec(IntBase2(slices[k])[2])])

OctetNotationOfBits(s) ==
    OctetNotationOfSlices(<<SubSeq(s, 1, 8), SubSeq(s, 9, 16),
                            SubSeq(s, 17, 24), SubSeq(s, 25, 32)>>)

\* lines 154-162: the octet string, or the ValueError of int() at line 156
JoinedOctets(ip_addr_octet_str_or_none) ==
    IF ip_addr_octet_str_or_none = <<>>
    THEN [raised |-> "ValueError", str |-> <<>>]
    ELSE [raised |-> "None", str |-> ip_addr_octet_str_or_none]

\* the argument is [type |-> "int", val |-> <<hi, lo>>], [type |-> "str",
\* val |-> characters] or a value of another type; the result is the
\* exception raised and the string returned
convert_ip_addr_to_octet_notation_str(ip_arg) ==
    IF ip_arg.type \notin {"int", "str"} THEN [raised |-> "TypeError", str |-> <<>>]
    ELSE IF /\ ip_arg.type = "str"
            /\ ~(/\ Len(ip_arg.val) = 32
                 /\ Cardinality({ip_arg.val[i] : i \in DOMAIN ip_arg.val}) = 2
                 /\ "0" \in {ip_arg.val[i] : i \in DOMAIN ip_arg.val})
    THEN [raised |-> "ValueError", str |-> <<>>]
    ELSE IF /\ ip_arg.type = "int"
            /\ ~(ip_arg.val[1] >= 0 /\ Len(RJust(BinOfInt(ip_arg.val), 32, "0")) = 32)
    THEN [raised |-> "ValueError", str |-> <<>>]
    ELSE JoinedOctets(OctetNotationOfBits(
             IF ip_arg.type = "str" THEN ip_arg.val
             ELSE RJust(BinOfInt(ip_arg.val), 32, "0")))

---------------------------------------------------------------------------
(* validation.investigate_special_use, calc.get_addr_class,                *)
(* calc.convert_prefix_to_mask                                             *)

\* s.ljust(width, fill)
LJust(s, width, fill) ==
    IF Len(s) >= width THEN s ELSE s \o [i \in 1..(width - Len(s)) |-> fill]

\* x & y for machine integers x, y >= 0
RECURSIVE BitAnd(_, _)
BitAnd(x, y) ==
    IF x = 0 \/ y = 0 THEN 0
    ELSE 2 * BitAnd(x \div 2, y \div 2) + (x % 2) * (y % 2)

\* a & m for integers <<hi, lo>>
AndInt(a, m) == <<BitAnd(a[1], m[1]), BitAnd(a[2], m[2])>>

\* ''.join([bin(octet)[2:].rjust(8, '0') for octet in octets]), octets integers
IntOctetsBinStr(octets) ==
    Join(<<>>, [i \in DOMAIN octets |-> RJust(Bin(octets[i]), 8, "0")])

\* the dict of lines 170-186, in insertion order
special_use_networks ==
    <<[octets |-> <<0, 0, 0, 0>>, prefix |-> 8, apt |-> FALSE,
       description |-> "\"This\" Network (RFC 1122, Section 3.2.1.3)"],
      [octets |-> <<10, 0, 0, 0>>, prefix |-> 8, apt |-> TRUE,
       description |-> "Private-Use Networks (RFC 1918)"],
      [octets |-> <<127, 0, 0, 0>>, prefix |-> 8, apt |-> FALSE,
       description |-> "Loopback (RFC 1122, Section 3.2.1.3)"],
      [octets |-> <<169, 254, 0, 0>>, prefix |-> 16, apt |-> FALSE,
       description |-> "Link Local (RFC 3927)"],
      [octets |-> <<172, 16, 0, 0>>, prefix |-> 12, apt |-> TRUE,
       description |-> "Private-Use Networks (RFC 1918)"],
      [octets |-> <<192, 0, 0, 0>>, prefix |-> 24, apt |-> FALSE,
       description |-> "IETF Protocol Assignments (RFC 5736)"],
      [octets |-> <<192, 0, 2, 0>>, prefix |-> 24, apt |-> FALSE,
       description |-> "TEST-NET-1 (RFC 5737)"],
      [octets |-> <<192, 88, 99, 0>>, prefix |-> 24, apt |-> FALSE,
       description |-> "6to4 Relay Anycast (RFC 3068)"],
      [octets |-> <<192, 168, 0, 0>>, prefix |-> 16, apt |-> TRUE,
       description |-> "Private-Use Networks (RFC 1918)"],
      [octets |-> <<198, 18, 0, 0>>, prefix |-> 15, apt |-> FALSE,
       description |-> "Network Interconnect Device Benchmarking Testing (RFC 2544)"],
      [octets |-> <<198, 51, 100, 0>>, prefix |-> 24, apt |-> FALSE,
       description |-> "TEST-NET-2 (RFC 5737)"],
      [octets |-> <<203, 0, 113, 0>>, prefix |-> 24, apt |-> FALSE,
       description |-> "TEST-NET-3 (RFC 5737)"],
      [octets |-> <<224, 0, 0, 0>>, prefix |-> 4, apt |-> FALSE,
       description |-> "Multicast (RFC 3171)"],
      [octets |-> <<240, 0, 0, 0>>, prefix |-> 4, apt |-> FALSE,
       description |-> "Reserved for Future Use (RFC 1112, Section 4)"],
      [octets |-> <<255, 255, 255, 255>>, prefix |-> 32, apt |-> FALSE,
       description |-> "Limited Broadcast (RFC 919, Section 7; RFC 922, Section 7)"]>>

\* lines 193-196 for every entry of the dict: the address and the prefix
\* mask of the special-use network as integers
special_use_ip_addr_int ==
    [k \in DOMAIN special_use_networks |->
        IntBase2(IntOctetsBinStr(special_use_networks[k].octets))]

special_use_prefix_int ==
    [k \in DOMAIN special_use_networks |->
        IntBase2(LJust([i \in 1..special_use_networks[k].prefix |-> "1"], 32, "0"))]

\* the test of line 199 without the mask of line 197
MatchesSpecialUse_Unmasked(user_ip_int, k) ==
    user_ip_int = special_use_ip_addr_int[k]

\* lines 197-199: the user's address, masked with the prefix of the k-th
\* special-use network, is the address of that network
MatchesSpecialUse(user_ip_int, k) ==
    LET user_net_ip_addr_int == AndInt(user_ip_int, special_use_prefix_int[k])
    IN  user_net_ip_addr_int = special_use_ip_addr_int[k]

\* the first entry of the dict that matches, 0 if none does
RECURSIVE FirstSpecialUse(_, _)
FirstSpecialUse(user_ip_int, k) ==
    IF k > Len(special_use_networks) THEN 0
    ELSE IF MatchesSpecialUse(user_ip_int, k) THEN k
    ELSE FirstSpecialUse(user_ip_int, k + 1)

\* the exception raised and the returned triple
investigate_special_use(ip_str) ==
    IF ~is_ipaddr_well_formed(ip_str)
    THEN [raised |-> "ValueError", is_special |-> FALSE, apt |-> FALSE,
          description |-> ""]
    ELSE LET octets == [i \in 1..4 |-> IntOfDec(MatchOctets(ip_str)[i])]
             user_ip_int == IntBase2(IntOctetsBinStr(octets))
             first == FirstSpecialUse(user_ip_int, 1)
         IN  IF first = 0
             THEN [raised |-> "None", is_special |-> FALSE, apt |-> TRUE,
                   description |-> ""]
             ELSE [raised |-> "None", is_special |-> TRUE,
                   apt |-> special_use_networks[first].apt,
                   description |-> special_use_networks[first].description]

\* get_addr_class with the prefix of class A returned for class B
get_addr_class_ClassBPrefix8(ip_str) ==
    IF ~is_ipaddr_well_formed(ip_str)
    THEN [raised |-> "ValueError", addr_class |-> "", prefix |-> 0]
    ELSE LET first_octet == IntOfDec(MatchOctets(ip_str)[1])
         IN  IF first_octet < 128
             THEN [raised |-> "None", addr_class |-> "A", prefix |-> 8]
             ELSE IF first_octet < 192
             THEN [raised |-> "None", addr_class |-> "B", prefix |-> 8]
             ELSE IF first_octet < 224
             THEN [raised |-> "None", addr_class |-> "C", prefix |-> 24]
             ELSE IF first_octet < 240
             THEN [raised |-> "None", addr_class |-> "D", prefix |-> 0]
             ELSE [raised |-> "None", addr_class |-> "E", prefix |-> 0]

\* the exception raised and the returned pair
get_addr_class(ip_str) ==
    IF ~is_ipaddr_well_formed(ip_str)
    THEN [raised |-> "ValueError", addr_class |-> "", prefix |-> 0]
    ELSE LET first_octet_bin_str ==
                 RJust(Bin(IntOfDec(MatchOctets(ip_str)[1])), 8, "0")
             first_nibble_bin_str == SubSeq(first_octet_bin_str, 1, 4)
         IN  IF first_nibble_bin_str[1] = "0"
             THEN [raised |-> "None", addr_class |-> "A", prefix |-> 8]
             ELSE IF SubSeq(first_nibble_bin_str, 1, 2) = <<"1", "0">>
             THEN [raised |-> "None", addr_class |-> "B", prefix |-> 16]
             ELSE IF SubSeq(first_nibble_bin_str, 1, 3) = <<"1", "1", "0">>
             THEN [raised |-> "None", addr_class |-> "C", prefix |-> 24]
             ELSE IF first_nibble_bin_str = <<"1", "1", "1", "0">>
             THEN [raised |-> "None", addr_class |-> "D", prefix |-> 0]
             ELSE [raised |-> "None", addr_class |-> "E", prefix |-> 0]

\* the exception raised and the mask string returned
convert_prefix_to_mask(prefix) ==
    IF ~(prefix \in 8..30) THEN [raised |-> "ValueError", str |-> <<>>]
    ELSE LET mask_bin_str == LJust([i \in 1..prefix |-> "1"], 32, "0")
             octets == [k \in 1..4 |->
                           Dec(IntOfBin(SubSeq(mask_bin_str, 8 * (k - 1) + 1, 8 * k)))]
         IN  [raised |-> "None", str |-> Join(<<".">>, octets)]

---------------------------------------------------------------------------
(* calc.create_subnets                                                     *)

\* the message of the ValueError of validation.py lines 96-99
FitArgumentMessage(prefix, list) ==
    IF ~(prefix \in 8..30) THEN "Invalid prefix, must keep between 8 and 30!"
    ELSE IF Len(list) < 2 THEN "Host block list must provide at least 2 entries!"
    ELSE IF \E i \in DOMAIN list : list[i] < 2
    THEN "Every host block length provided inside the list must be at least 2 bits!"
    ELSE ""

\* line 242 with the test left out
IsOddAddress_Never(orig_ip_bin_str) == FALSE

\* line 242: orig_ip_bin_str[-1:] == '1'
IsOddAddress(orig_ip_bin_str) ==
    orig_ip_bin_str # <<>> /\ orig_ip_bin_str[Len(orig_ip_bin_str)] = "1"

\* convert_ip_addr_to_octet_notation_str of an integer argument
OctetStrOfInt(a) == convert_ip_addr_to_octet_notation_str([type |-> "int", val |-> a])

\* lines 259-272: the exception raised by a conversion, and the dict appended
\* (line 264 is reached when the conversions of lines 259-263 raised nothing)
AppendedDict(subnet_addr_str, subnet_mask_str, subnet_prefix, subnet_first_host_addr_str, subnet_last_host_addr_str, subnet_broadcast_addr_str, subnet_succeeding_addr_str, subnet_host_count, annotation) ==
    IF \/ subnet_addr_str.raised # "None"
       \/ subnet_first_host_addr_str.raised # "None"
       \/ subnet_last_host_addr_str.raised # "None"
       \/ subnet_broadcast_addr_str.raised # "None"
       \/ subnet_succeeding_addr_str.raised # "None"
       \/ subnet_mask_str.raised # "None"
    THEN [raised |-> "ValueError",
          message |-> IF \/ subnet_addr_str.raised # "None"
                         \/ subnet_first_host_addr_str.raised # "None"
                         \/ subnet_last_host_addr_str.raised # "None"
                         \/ subnet_broadcast_addr_str.raised # "None"
                         \/ subnet_succeeding_addr_str.raised # "None"
                      THEN "Param 'ip' is not a valid IP integer!"
                      ELSE "Invalid prefix!",
          dict |-> <<>>]
    ELSE [raised |-> "None", message |-> "",
          dict |-> [addr |-> subnet_addr_str.str,
                    mask |-> subnet_mask_str.str,
                    prefix |-> Dec(subnet_prefix),
                    first_host_addr |-> subnet_first_host_addr_str.str,
                    last_host_addr |-> subnet_last_host_addr_str.str,
                    broadcast_addr |-> subnet_broadcast_addr_str.str,
                    succeeding_addr |-> subnet_succeeding_addr_str.str,
                    max_hosts |-> Dec(subnet_host_count),
                    annotation |-> annotation]]

\* lines 250-264 with the broadcast address taken for the last host address
SubnetBetween_BroadcastIsLastHost(subnet_addr_int, subnet_succeeding_addr_int, demanded_host_block_len, annotation) ==
    AppendedDict(OctetStrOfInt(subnet_addr_int),
                 convert_prefix_to_mask(32 - demanded_host_block_len),
                 32 - demanded_host_block_len,
                 OctetStrOfInt(AddInt(subnet_addr_int, 1)),
                 OctetStrOfInt(AddInt(subnet_succeeding_addr_int, -2)),
                 OctetStrOfInt(AddInt(subnet_succeeding_addr_int, -2)),
                 OctetStrOfInt(subnet_succeeding_addr_int),
                 Pow2(demanded_host_block_len) - 2,
                 annotation)

\* lines 250-264: the properties of the subnet from its address and the
\* address that succeeds it
SubnetBetween(subnet_addr_int, subnet_succeeding_addr_int, demanded_host_block_len, annotation) ==
    AppendedDict(OctetStrOfInt(subnet_addr_int),
                 convert_prefix_to_mask(32 - demanded_host_block_len),
                 32 - demanded_host_block_len,
                 OctetStrOfInt(AddInt(subnet_addr_int, 1)),
                 OctetStrOfInt(AddInt(subnet_succeeding_addr_int, -2)),
                 OctetStrOfInt(AddInt(subnet_succeeding_addr_int, -1)),
                 OctetStrOfInt(subnet_succeeding_addr_int),
                 Pow2(demanded_host_block_len) - 2,
                 annotation)

\* lines 250-272: one pass of the loop
SubnetOf(current_ip_addr_int, demanded_host_block_len, annotation) ==
    SubnetBetween(current_ip_addr_int,
                  AddInt(current_ip_addr_int, Pow2(demanded_host_block_len)),
                  demanded_host_block_len, annotation)

\* the loop of lines 249-272 from the n-th entry on: the results of the passes
RECURSIVE SubnetsFrom(_, _, _, _)
SubnetsFrom(current_ip_addr_int, sorted, n, annotation) ==
    IF n > Len(sorted) THEN <<>>
    ELSE <<SubnetOf(current_ip_addr_int, sorted[n], annotation)>>
         \o SubnetsFrom(AddInt(current_ip_addr_int, Pow2(sorted[n])),
                        sorted, n + 1, annotation)

\* an exception leaves create_subnets: its class and message, the caller's list
Raise(class_name, message, list) ==
    [raised |-> class_name, message |-> message, list |-> list,
     final_subnets |-> <<>>]

\* lines 246-273: the sort of line 247 and the loop
SubnetsOfSorted(orig_ip_bin_str, sorted, annotation, passes) ==
    IF \E n \in DOMAIN passes : passes[n].raised # "None"
    THEN Raise("ValueError",
               passes[CHOOSE n \in DOMAIN passes :
                          /\ passes[n].raised # "None"
                          /\ \A m \in 1 .. n - 1 : passes[m].raised = "None"].message,
               sorted)
    ELSE [raised |-> "None", message |-> "", list |-> sorted,
          final_subnets |-> [n \in DOMAIN passes |-> passes[n].dict]]

\* lines 217-273: the fit analysis and what follows it
SubnetsIfFit(orig_ip_arg, host_blocks_len_arg, orig_prefix_arg, annotation, orig_ip_bin_str, fit) ==
    IF fit.raised # "None"
    THEN Raise(fit.raised, FitArgumentMessage(orig_prefix_arg, host_blocks_len_arg),
               fit.list)
    ELSE IF ~fit.ok
    THEN Raise("UserWarning", "Sorry, some of your demanded subnets won't fit!",
               fit.list)
    ELSE IF IsOddAddress(orig_ip_bin_str)
    THEN Raise("ValueError",
               "The last octet of a valid network address must be an even number (ends with zero in binary)!",
               fit.list)
    ELSE SubnetsOfSorted(orig_ip_bin_str, SortDesc(fit.list), annotation,
                         SubnetsFrom(IntBase2(orig_ip_bin_str), SortDesc(fit.list),
                                     1, annotation))

\* lines 207-273 after the call of line 208
SubnetsIfApt(orig_ip_arg, host_blocks_len_arg, special, class) ==
    IF special.raised # "None"
    THEN Raise(special.raised, "Invalid IP address!", host_blocks_len_arg)
    ELSE IF special.is_special /\ ~special.apt
    THEN Raise("UserWarning",
               "Address reserved for special purpose: " \o special.description,
               host_blocks_len_arg)
    ELSE IF class.raised # "None"
    THEN Raise(class.raised, "Invalid IP address!", host_blocks_len_arg)
    ELSE IF class.addr_class \notin {"A", "B", "C"}
    THEN Raise("UserWarning",
               "Addresses aside the classes A, B and C shouldn't be used for subnetting!",
               host_blocks_len_arg)
    ELSE SubnetsIfFit(orig_ip_arg, host_blocks_len_arg, class.prefix,
                      IF special.is_special /\ special.apt
                      THEN "Will not be routed: " \o special.description
                      ELSE "",
                      OctetsBinStr(MatchOctets(orig_ip_arg)),
                      investigate_network_block_fit(class.prefix, host_blocks_len_arg))

\* the whole call: the exception raised and its message, the caller's list
\* afterwards, the list returned
create_subnets(orig_ip_arg, host_blocks_len_arg) ==
    SubnetsIfApt(orig_ip_arg, host_blocks_len_arg,
                 investigate_special_use(orig_ip_arg), get_addr_class(orig_ip_arg))

---------------------------------------------------------------------------
(* validation.is_netmask_well_formed, calc.convert_mask_to_prefix          *)

\* the loop of lines 55-60 left out
HasZeroBeforeOne_Never(netmask_bin_str) == FALSE

\* the loop of lines 55-60 finds a zero bit followed by a one bit
HasZeroBeforeOne(netmask_bin_str) ==
    \E n \in 1 .. Len(netmask_bin_str) - 1 :
        netmask_bin_str[n] = "0" /\ netmask_bin_str[n + 1] = "1"

\* lines 51-63 for the groups of the match
IsMaskOfOctets(netmask_bin_str) ==
    IF HasZeroBeforeOne(netmask_bin_str) THEN FALSE
    ELSE /\ Len(netmask_bin_str) = 32
         /\ Count(netmask_bin_str, "1") \in 8..30

is_netmask_well_formed(netmask_arg) ==
    IF MatchOctets(netmask_arg) # <<>>
    THEN IsMaskOfOctets(OctetsBinStr(MatchOctets(netmask_arg)))
    ELSE FALSE

\* ''.join([bin(int(octet))[2:] for octet in groups]): no padding
OctetsBinStrUnpadded(groups) ==
    Join(<<>>, [i \in DOMAIN groups |-> Bin(IntOfDec(groups[i]))])

\* convert_mask_to_prefix counting the zero bits
convert_mask_to_prefix_CountsZeros(mask) ==
    IF ~is_netmask_well_formed(mask) THEN [raised |-> "ValueError", prefix |-> 0]
    ELSE [raised |-> "None",
          prefix |-> Count(OctetsBinStrUnpadded(MatchOctets(mask)), "0")]

\* the exception raised and the prefix returned
convert_mask_to_prefix(mask) ==
    IF ~is_netmask_well_formed(mask) THEN [raised |-> "ValueError", prefix |-> 0]
    ELSE [raised |-> "None",
          prefix |-> Count(OctetsBinStrUnpadded(MatchOctets(mask)), "1")]

---------------------------------------------------------------------------
(* The state of a function that a specification does not call.             *)

FitIdle ==
    /\ orig_prefix = 8
    /\ required_host_blocks_len = <<>>
    /\ has_investigation_been_successful = FALSE
    /\ faulty_host_blocks = <<>>

ParseIdle ==
    /\ user_config_str = <<>>
    /\ final_host_blocks = <<>>

CodecIdle ==
    /\ ip = [type |-> "int", val |-> <<0, 0>>]
    /\ ip_addr_octet_str = <<>>
    /\ ip_int = <<0, 0>>

BuildIdle ==
    /\ orig_ip = <<>>
    /\ host_blocks_len = <<>>
    /\ final_subnets = <<>>
    /\ raised_message = ""

MaskIdle ==
    /\ prefix_arg = 0
    /\ netmask = <<>>
    /\ is_netmask_ok = FALSE
    /\ mask_prefix = 0

GateIdle ==
    /\ is_special_use_case = FALSE
    /\ is_apt_for_subnetting = FALSE
    /\ description = ""
    /\ orig_addr_class = ""
    /\ class_prefix = 0

---------------------------------------------------------------------------
(* Specification of the fit analysis: any prefix and block list, one call. *)

Prefixes == {7, 8} \cup ((31 - PrefixSpan) .. 31)

BlockLists == ListsUpTo(1..MaxBlockLen, MaxBlocks)

\* the call analyze(24, [9,9,9,9]) and calls next to it
ExampleBlockLists == {<<9, 9, 9, 9>>, <<9, 9, 8, 2>>, <<8, 9>>, <<10, 9, 9>>}

InitFit ==
    /\ pc = "ready"
    /\ \/ orig_prefix \in Prefixes /\ required_host_blocks_len \in BlockLists
       \/ orig_prefix = 24 /\ required_host_blocks_len \in ExampleBlockLists
    /\ has_investigation_been_successful = FALSE
    /\ faulty_host_blocks = <<>>
    /\ raised = "None"
    /\ ParseIdle /\ CodecIdle /\ BuildIdle /\ MaskIdle /\ GateIdle

AnalyzeFit ==
    /\ pc = "ready"
    /\ LET r == investigate_network_block_fit(orig_prefix, required_host_blocks_len)
       IN  /\ required_host_blocks_len' = r.list
           /\ has_investigation_been_successful' = r.ok
           /\ faulty_host_blocks' = r.faulty
           /\ raised' = r.raised
    /\ pc' = "done"
    /\ UNCHANGED <<orig_prefix, parseVars, codecVars, buildVars, maskVars, gateVars>>

NextFit == AnalyzeFit

SpecFit == InitFit /\ [][NextFit]_vars

---------------------------------------------------------------------------
(* Specification of the parser: a configuration string of up to MaxTokens  *)
(* tokens separated by blanks, one call.                                   *)

HostCounts == {1, 2, 3, 6, 200, 660}

Reserves == {0, 55}

\* "<h>:<r>" and "<h>:<r>x<n>"
BasicToken(h, r) == Dec(h) \o <<":">> \o Dec(r)

TimesToken(h, r, n) == BasicToken(h, r) \o <<"x">> \o Dec(n)

\* well-formed tokens, and tokens that are not of the form <h>:<r>[x<n>]
Tokens ==
    {BasicToken(h, r) : h \in HostCounts, r \in Reserves}
    \cup {TimesToken(2, 0, 0), TimesToken(2, 0, 10), TimesToken(3, 55, 2)}
    \cup {<<"a", "b", "c">>, <<"1", "2">>, <<"5", ":">>, <<":", "5">>,
          <<"3", ":", "x", "2">>,
          BasicToken(3, 0) \o <<"x", "-", "2">>,
          <<"a">> \o BasicToken(6, 0) \o <<"b">>}

ConfigStrings == {Join(<<" ">>, t) : t \in ListsUpTo(Tokens, MaxTokens)}

InitParse ==
    /\ pc = "ready"
    /\ user_config_str \in ConfigStrings
    /\ final_host_blocks = <<>>
    /\ raised = "None"
    /\ FitIdle /\ CodecIdle /\ BuildIdle /\ MaskIdle /\ GateIdle

Parse ==
    /\ pc = "ready"
    /\ LET r == get_host_blocks(user_config_str)
       IN  /\ final_host_blocks' = r.blocks
           /\ raised' = r.raised
    /\ pc' = "done"
    /\ UNCHANGED <<user_config_str, fitVars, codecVars, buildVars, maskVars, gateVars>>

NextParse == Parse

SpecParse == InitParse /\ [][NextParse]_vars

---------------------------------------------------------------------------
(* Specification of the address conversions: an integer, a string or a     *)
(* value of another type is converted to octet notation, and the octet     *)
(* string, when there is one, back to an integer.                          *)

\* the integers tried: hi * 65536 + lo, among them -1, 0, 2^32 - 1 and 2^32
IntArguments ==
    {<<hi, lo>> : hi \in {-1, 0, 1, 255, 2560, 49320, 65535, 65536},
                  lo \in {0, 1, 255, 256, 65534, 65535}}

\* the 8-character pieces the strings tried are made of
Pieces ==
    {<<"0", "0", "0", "0", "0", "0", "0", "0">>,
     <<"1", "1", "1", "1", "1", "1", "1", "1">>,
     <<"1", "0", "1", "0", "1", "0", "0", "0">>,
     <<"0", "0", "0", "0", "0", "0", "0", " ">>,
     <<"0", "0", "0", "2", "0", "0", "0", "0">>}

\* strings of 8 * n characters, n up to MaxPieces
StrArguments == {Join(<<>>, t) : t \in ListsUpTo(Pieces, MaxPieces)}

InitCodec ==
    /\ pc = "ready"
    /\ ip \in {[type |-> "int", val |-> a] : a \in IntArguments}
              \cup {[type |-> "str", val |-> str] : str \in StrArguments}
              \cup {[type |-> "NoneType", val |-> <<>>]}
    /\ ip_addr_octet_str = <<>>
    /\ ip_int = <<0, 0>>
    /\ raised = "None"
    /\ FitIdle /\ ParseIdle /\ BuildIdle /\ MaskIdle /\ GateIdle

ToOctetNotation ==
    /\ pc = "ready"
    /\ LET r == convert_ip_addr_to_octet_notation_str(ip)
       IN  /\ ip_addr_octet_str' = r.str
           /\ raised' = r.raised
    /\ pc' = "converted"
    /\ UNCHANGED <<ip, ip_int, fitVars, parseVars, buildVars, maskVars, gateVars>>

ToInt ==
    /\ pc = "converted"
    /\ raised = "None"
    /\ LET r == convert_ip_octet_notation_str_to_int(ip_addr_octet_str)
       IN  /\ ip_int' = r.int
           /\ raised' = r.raised
    /\ pc' = "done"
    /\ UNCHANGED <<ip, ip_addr_octet_str, fitVars, parseVars, buildVars, maskVars, gateVars>>

NextCodec == ToOctetNotation \/ ToInt

SpecCodec == InitCodec /\ [][NextCodec]_vars

---------------------------------------------------------------------------
(* Specification of the subnet builder: an address string and a block      *)
(* list, one call of create_subnets.                                       *)

\* "<a>.<b>.<c>.<d>"
OctetStrOf(o) == Join(<<".">>, <<Dec(o[1]), Dec(o[2]), Dec(o[3]), Dec(o[4])>>)

\* addresses inside, at the edges of and next to every special-use network,
\* of every class, even and odd
BuildOctets ==
    {<<0, 0, 0, 0>>, <<0, 1, 2, 4>>, <<1, 0, 0, 0>>, <<8, 8, 8, 8>>, <<8, 8, 8, 9>>,
     <<9, 255, 255, 254>>, <<10, 0, 0, 0>>, <<10, 0, 0, 1>>, <<10, 255, 0, 0>>,
     <<11, 0, 0, 0>>, <<126, 0, 0, 0>>, <<127, 0, 0, 0>>, <<127, 0, 0, 1>>,
     <<128, 0, 0, 0>>, <<142, 212, 80, 8>>, <<169, 253, 0, 0>>, <<169, 254, 0, 0>>,
     <<169, 254, 7, 1>>, <<169, 255, 0, 0>>, <<172, 15, 0, 0>>, <<172, 16, 0, 0>>,
     <<172, 16, 0, 3>>, <<172, 31, 255, 0>>, <<172, 32, 0, 0>>, <<191, 255, 0, 0>>,
     <<192, 0, 0, 0>>, <<192, 0, 0, 8>>, <<192, 0, 1, 0>>, <<192, 0, 2, 0>>,
     <<192, 0, 3, 0>>, <<192, 88, 98, 0>>, <<192, 88, 99, 0>>, <<192, 167, 0, 0>>,
     <<192, 168, 0, 0>>, <<192, 168, 1, 0>>, <<192, 168, 1, 1>>,
     <<192, 168, 255, 254>>, <<192, 169, 0, 0>>, <<198, 17, 0, 0>>,
     <<198, 18, 0, 0>>, <<198, 19, 255, 0>>, <<198, 20, 0, 0>>, <<198, 51, 100, 0>>,
     <<198, 51, 101, 0>>, <<203, 0, 113, 0>>, <<203, 0, 113, 9>>, <<203, 0, 114, 0>>,
     <<223, 255, 255, 0>>, <<223, 255, 255, 255>>, <<224, 0, 0, 0>>,
     <<239, 1, 1, 1>>, <<240, 0, 0, 0>>, <<255, 255, 255, 254>>,
     <<255, 255, 255, 255>>}

\* the strings tried: the addresses above, addresses with a leading zero,
\* and strings that are not addresses
BuildAddresses ==
    {OctetStrOf(o) : o \in BuildOctets}
    \cup {<<"0">> \o OctetStrOf(<<10, 0, 0, 0>>), <<"0">> \o OctetStrOf(<<10, 0, 0, 1>>)}
    \cup {<<>>, <<"a", ".", "b", ".", "c", ".", "d">>,
          <<"1", "0", ".", "0", ".", "0">>,
          OctetStrOf(<<10, 0, 0, 0>>) \o <<".", "0">>,
          OctetStrOf(<<256, 0, 0, 0>>), OctetStrOf(<<10, 0, 0, 256>>)}

\* the block lengths tried
BuildBlockLens == {1, 2, 7, 17}

BuildBlockLists == ListsUpTo(BuildBlockLens, MaxBuildBlocks)

InitBuild ==
    /\ pc = "ready"
    /\ orig_ip \in BuildAddresses
    /\ host_blocks_len \in BuildBlockLists
    /\ final_subnets = <<>>
    /\ raised_message = ""
    /\ raised = "None"
    /\ FitIdle /\ ParseIdle /\ CodecIdle /\ MaskIdle /\ GateIdle

CreateSubnets ==
    /\ pc = "ready"
    /\ LET r == create_subnets(orig_ip, host_blocks_len)
       IN  /\ host_blocks_len' = r.list
           /\ final_subnets' = r.final_subnets
           /\ raised' = r.raised
           /\ raised_message' = r.message
    /\ pc' = "done"
    /\ UNCHANGED <<orig_ip, fitVars, parseVars, codecVars, maskVars, gateVars>>

NextBuild == CreateSubnets

SpecBuild == InitBuild /\ [][NextBuild]_vars

---------------------------------------------------------------------------
(* Specification of the mask conversions: a prefix is converted to a mask, *)
(* or a mask string is given; the mask is tested and converted to a prefix. *)

\* the prefixes tried
PrefixArguments == 1 .. 33

\* the octets the mask strings tried are made of
MaskOctets == {0, 1, 127, 128, 192, 252, 254, 255, 256}

\* the mask strings tried: four octets, an octet with leading zeros, and
\* strings that are not four groups of digits
MaskStrings ==
    {OctetStrOf(o) : o \in [1..4 -> MaskOctets]}
    \cup {OctetStrOf(<<255, 255, 255, 0>>) \o <<"0", "0">>,
          <<"0">> \o OctetStrOf(<<255, 255, 0, 0>>),
          <<>>, <<"a", ".", "b", ".", "c", ".", "d">>,
          <<"2", "5", "5", ".", "0", ".", "0">>,
          OctetStrOf(<<255, 0, 0, 0>>) \o <<".", "0">>,
          <<"2", "5", "5", "5", ".", "0", ".", "0", ".", "0">>}

\* a call of convert_prefix_to_mask is pending (pc = "ready"), or a mask
\* string is at hand (pc = "masked", no prefix was converted: prefix_arg = 0)
InitMask ==
    /\ \/ pc = "ready" /\ prefix_arg \in PrefixArguments /\ netmask = <<>>
       \/ pc = "masked" /\ prefix_arg = 0 /\ netmask \in MaskStrings
    /\ is_netmask_ok = FALSE
    /\ mask_prefix = 0
    /\ raised = "None"
    /\ FitIdle /\ ParseIdle /\ CodecIdle /\ BuildIdle /\ GateIdle

ToMask ==
    /\ pc = "ready"
    /\ netmask' = convert_prefix_to_mask(prefix_arg).str
    /\ raised' = convert_prefix_to_mask(prefix_arg).raised
    /\ pc' = IF convert_prefix_to_mask(prefix_arg).raised = "None" THEN "masked" ELSE "done"
    /\ UNCHANGED <<prefix_arg, is_netmask_ok, mask_prefix,
                   fitVars, parseVars, codecVars, buildVars, gateVars>>

CheckMask ==
    /\ pc = "masked"
    /\ is_netmask_ok' = is_netmask_well_formed(netmask)
    /\ pc' = "checked"
    /\ UNCHANGED <<prefix_arg, netmask, mask_prefix, raised,
                   fitVars, parseVars, codecVars, buildVars, gateVars>>

ToPrefix ==
    /\ pc = "checked"
    /\ mask_prefix' = convert_mask_to_prefix(netmask).prefix
    /\ raised' = convert_mask_to_prefix(netmask).raised
    /\ pc' = "done"
    /\ UNCHANGED <<prefix_arg, netmask, is_netmask_ok,
                   fitVars, parseVars, codecVars, buildVars, gateVars>>

NextMask == ToMask \/ CheckMask \/ ToPrefix

SpecMask == InitMask /\ [][NextMask]_vars

---------------------------------------------------------------------------
(* Specification of the two checks of an address that create_subnets makes *)
(* at lines 208 and 213: one call of investigate_special_use or of         *)
(* get_addr_class.                                                         *)

\* the strings tried: those of the subnet builder and the examples
\* "223.1.1.1", "191.255.0.0"
GateAddresses ==
    BuildAddresses
    \cup {OctetStrOf(<<223, 1, 1, 1>>), OctetStrOf(<<191, 255, 0, 0>>),
          OctetStrOf(<<127, 255, 255, 255>>), OctetStrOf(<<239, 255, 255, 255>>)}

InitGate ==
    /\ pc = "ready"
    /\ orig_ip \in GateAddresses
    /\ host_blocks_len = <<>>
    /\ final_subnets = <<>>
    /\ raised_message = ""
    /\ raised = "None"
    /\ GateIdle
    /\ FitIdle /\ ParseIdle /\ CodecIdle /\ MaskIdle

InvestigateSpecialUse ==
    /\ pc = "ready"
    /\ is_special_use_case' = investigate_special_use(orig_ip).is_special
    /\ is_apt_for_subnetting' = investigate_special_use(orig_ip).apt
    /\ description' = investigate_special_use(orig_ip).description
    /\ raised' = investigate_special_use(orig_ip).raised
    /\ pc' = "investigated"
    /\ UNCHANGED <<orig_addr_class, class_prefix,
                   fitVars, parseVars, codecVars, buildVars, maskVars>>

Classify ==
    /\ pc = "ready"
    /\ orig_addr_class' = get_addr_class(orig_ip).addr_class
    /\ class_prefix' = get_addr_class(orig_ip).prefix
    /\ raised' = get_addr_class(orig_ip).raised
    /\ pc' = "classified"
    /\ UNCHANGED <<is_special_use_case, is_apt_for_subnetting, description,
                   fitVars, parseVars, codecVars, buildVars, maskVars>>

NextGate == InvestigateSpecialUse \/ Classify

SpecGate == InitGate /\ [][NextGate]_vars

---------------------------------------------------------------------------
(* Claims about the fit analysis (checked under SpecFit).                  *)

FitReturned == pc = "done" /\ raised = "None"

\* address space demanded by a block list: the sum of 2^b
RECURSIVE SumPow2(_)
SumPow2(list) == IF list = <<>> THEN 0 ELSE Pow2(Head(list)) + SumPow2(Tail(list))

\* whether the returned fault list holds a record for the entry at 1-based
\* position n of the sorted list
HasFault(n) == \E i \in DOMAIN faulty_host_blocks : faulty_host_blocks[i][1] = n

\* C1: whenever the analysis answers "fits" (True, no faults), the blocks
\* together fit the original network: the sum of 2^b over the list is at
\* most 2^(32 - origPrefix).
C1_FitImpliesTotalFits ==
    (FitReturned /\ has_investigation_been_successful)
        => SumPow2(required_host_blocks_len) <= Pow2(32 - orig_prefix)

\* the explosion test as the claim words it, with `slotsAtEqual` the number
\* of available slots taken when requiredPrefix = origPrefix
ExplosionTestAsClaimed(n, slotsAtEqual) ==
    LET list == required_host_blocks_len
        b == list[n]
        smallest == list[Len(list)]
        count == Count(list, b)
        availableSlots ==
            IF 32 - b = orig_prefix THEN slotsAtEqual ELSE Pow2(32 - b - orig_prefix)
    IN  \/ b > smallest /\ count >= availableSlots
        \/ b = smallest /\ count > availableSlots

\* C3 as stated: for every entry with requiredPrefix >= origPrefix a fault is
\* recorded iff the explosion test holds, availableSlots being
\* 2^(requiredPrefix - origPrefix), hence 1 when requiredPrefix = origPrefix.
C3_ExplosionTestOriginal ==
    FitReturned =>
        \A n \in DOMAIN required_host_blocks_len :
            32 - required_host_blocks_len[n] >= orig_prefix
                => (HasFault(n) <=> ExplosionTestAsClaimed(n, 1))

\* C3 amended: for every entry with requiredPrefix >= origPrefix a fault is
\* recorded iff (b > smallest and count >= availableSlots) or (b = smallest
\* and count > availableSlots), where availableSlots is
\* 2^(requiredPrefix - origPrefix) when requiredPrefix > origPrefix and 0 when
\* requiredPrefix = origPrefix; and a list of same-sized blocks that exactly
\* fills the network fits.
C3_ExplosionTest ==
    FitReturned =>
        /\ \A n \in DOMAIN required_host_blocks_len :
               32 - required_host_blocks_len[n] >= orig_prefix
                   => (HasFault(n) <=> ExplosionTestAsClaimed(n, 0))
        /\ LET list == required_host_blocks_len
           IN  (/\ \A n \in DOMAIN list : list[n] = list[1]
                /\ 32 - list[1] > orig_prefix
                /\ Len(list) = Pow2(32 - list[1] - orig_prefix))
                   => has_investigation_been_successful /\ faulty_host_blocks = <<>>

\* C3 witness: the analysis returned with a faulted entry larger than the
\* smallest block and an unfaulted smallest block whose count equals its slots.
C3_Witness ==
    /\ FitReturned
    /\ \E n \in DOMAIN required_host_blocks_len :
           /\ 32 - required_host_blocks_len[n] >= orig_prefix
           /\ required_host_blocks_len[n] >
                  required_host_blocks_len[Len(required_host_blocks_len)]
           /\ HasFault(n)
    /\ LET m == Len(required_host_blocks_len)
           b == required_host_blocks_len[m]
       IN  /\ 32 - b > orig_prefix
           /\ Count(required_host_blocks_len, b) = Pow2(32 - b - orig_prefix)
           /\ ~HasFault(m)

\* C7: a call leaves the caller's block list as it was, same elements in the
\* same order, whether it returns or raises.
C7_CallerListUnchanged ==
    [][required_host_blocks_len' = required_host_blocks_len]_vars

---------------------------------------------------------------------------
(* Claims about the parser (checked under SpecParse).                      *)

ParseReturned == pc = "done" /\ raised = "None"

\* the matches of the pattern in the configuration string: <<H, R, N>> as
\* numbers, N = 1 when the multiplier is omitted
MatchedTokens ==
    LET found == FindAllConfigs(user_config_str, 1)
    IN  [i \in DOMAIN found |->
            <<IntOfDec(found[i][1]), IntOfDec(found[i][2]),
              IF found[i][3] = <<>> THEN 1 ELSE IntOfDec(found[i][3])>>]

\* hostCount + ceil(hostCount * reservePercent / 100), in exact arithmetic
RequiredHosts(h, r) == h + ((h * r + 99) \div 100)

\* the least b with 2^b - 2 >= required
MinCapacityBits(required) ==
    CHOOSE b \in 1..31 : /\ Pow2(b) - 2 >= required
                         /\ \A c \in 1..(b - 1) : Pow2(c) - 2 < required

\* floor(log2(required)) + 1 for required >= 1
FloorLog2Plus1(required) ==
    CHOOSE b \in 1..31 : Pow2(b - 1) <= required /\ required < Pow2(b)

\* N copies of the size claimed for each matched token, in token order;
\* `byCapacity` selects the capacity rule (C2) or the bit-length rule (C5)
RECURSIVE SizesAsClaimed(_, _)
SizesAsClaimed(tokens, byCapacity) ==
    IF tokens = <<>> THEN <<>>
    ELSE LET t == Head(tokens)
             b == IF byCapacity THEN MinCapacityBits(RequiredHosts(t[1], t[2]))
                  ELSE FloorLog2Plus1(RequiredHosts(t[1], t[2]))
         IN  [i \in 1..t[3] |-> b] \o SizesAsClaimed(Tail(tokens), byCapacity)

\* whether two lists hold the same elements, each as often
SameMultiset(a, b) ==
    /\ Len(a) = Len(b)
    /\ \A i \in DOMAIN a : Count(a, a[i]) = Count(b, a[i])

\* C2: every block size emitted is the least b with
\* 2^b - 2 >= H + ceil(H*R/100) of its token, so that a subnet built from it
\* (maxHosts = 2^b - 2) holds the requested hosts plus reserve.
C2_BlockHoldsHostsPlusReserve ==
    ParseReturned =>
        SameMultiset(final_host_blocks, SizesAsClaimed(MatchedTokens, TRUE))

\* C5: on success the returned list is sorted descending and is exactly the
\* multiset of N copies of floor(log2(H + ceil(H*R/100))) + 1 per matched
\* token; its length is the sum of the multipliers.
C5_ParseResult ==
    ParseReturned =>
        /\ \A i \in 1..(Len(final_host_blocks) - 1) :
               final_host_blocks[i] >= final_host_blocks[i + 1]
        /\ SameMultiset(final_host_blocks, SizesAsClaimed(MatchedTokens, FALSE))

\* whether the string holds "<h>:<r>x" followed by a zero or negative number
CarriesNonPositiveMultiplier(str) ==
    \E i \in DOMAIN str :
        /\ MatchConfigAt(str, i) # <<>>
        /\ LET m == MatchConfigAt(str, i)
               e == m[4]
           IN  \/ m[3] # <<>> /\ IntOfDec(m[3]) = 0
               \/ /\ m[3] = <<>>
                  /\ e + 3 <= Len(str)
                  /\ str[e + 1] = "x" /\ str[e + 2] = "-" /\ IsDigit(str[e + 3])

\* the sum of the multipliers of the matched tokens
RECURSIVE SumOfMultipliers(_)
SumOfMultipliers(tokens) ==
    IF tokens = <<>> THEN 0 ELSE Head(tokens)[3] + SumOfMultipliers(Tail(tokens))

\* C6: parsing fails with ValueError exactly when no token matches, a matched
\* token has H < 2, a token carries a multiplier that is zero or negative, or
\* fewer than 2 block sizes are produced; otherwise it returns at least 2
\* block sizes, each >= 2 bits.
C6_ParseErrors ==
    pc = "done" =>
        /\ raised = "ValueError" <=>
               \/ MatchedTokens = <<>>
               \/ \E i \in DOMAIN MatchedTokens : MatchedTokens[i][1] < 2
               \/ CarriesNonPositiveMultiplier(user_config_str)
               \/ SumOfMultipliers(MatchedTokens) < 2
        /\ raised = "None" =>
               /\ Len(final_host_blocks) >= 2
               /\ \A i \in DOMAIN final_host_blocks : final_host_blocks[i] >= 2

---------------------------------------------------------------------------
(* Claims about the address conversions (checked under SpecCodec).         *)

InRange32(a) == a[1] \in 0..65535

\* whether a str is 32 characters, each "0" or "1"
Is32Bits(str) == Len(str) = 32 /\ \A i \in DOMAIN str : str[i] \in {"0", "1"}

\* C10: for every a in [0, 2^32 - 1] the octet string of a converts back to
\* a, the 32-character binary string of a converts to the same octet string,
\* and the conversion to octet notation raises ValueError exactly for the
\* strings that are not 32 characters of 0/1 and the integers out of range.
C10_AddressRoundTrip ==
    /\ (pc = "done" /\ ip.type = "int" /\ InRange32(ip.val))
           => raised = "None" /\ ip_int = ip.val
    /\ (pc # "ready" /\ ip.type = "int" /\ InRange32(ip.val))
           => LET r == convert_ip_addr_to_octet_notation_str(
                           [type |-> "str", val |-> RJust(BinOfInt(ip.val), 32, "0")])
              IN  r.raised = "None" /\ r.str = ip_addr_octet_str
    /\ pc = "converted"
           => (raised = "ValueError" <=>
                   \/ ip.type = "str" /\ ~Is32Bits(ip.val)
                   \/ ip.type = "int" /\ ~InRange32(ip.val))

---------------------------------------------------------------------------
(* Claims about the subnet builder (checked under SpecBuild).              *)

\* a call of create_subnets, and one that returned
BuildCalled == pc = "ready" /\ pc' = "done"

BuildReturned == pc = "done" /\ raised = "None"

\* the four numbers of a string of four dot-separated decimal groups
OctetsOfParts(parts) == [i \in 1..4 |-> IntOfDec(parts[i])]

OctetsOf(str) == OctetsOfParts(SplitOn(str, "."))

\* the address with octets o, as <<hi, lo>>
ValueOfOctets(o) == <<256 * o[1] + o[2], 256 * o[3] + o[4]>>

AddrValue(str) == ValueOfOctets(OctetsOf(str))

\* a < b for addresses <<hi, lo>>
AddrLess(a, b) == a[1] < b[1] \/ (a[1] = b[1] /\ a[2] < b[2])

\* four dot-separated groups of one to three digits, each at most 255
WellFormedParts(parts) ==
    /\ Len(parts) = 4
    /\ \A i \in 1..4 : /\ Len(parts[i]) \in 1..3
                       /\ \A j \in DOMAIN parts[i] : IsDigit(parts[i][j])
                       /\ IntOfDec(parts[i]) <= 255

WellFormedAddress(str) == WellFormedParts(SplitOn(str, "."))

\* the RFC 1918 ranges 10/8, 172.16/12, 192.168/16
InRFC1918(o) ==
    \/ o[1] = 10
    \/ o[1] = 172 /\ o[2] \in 16..31
    \/ o[1] = 192 /\ o[2] = 168

\* the special-use networks of RFC 5735 other than the RFC 1918 ranges
InOtherSpecialUse(o) ==
    \/ o[1] = 0
    \/ o[1] = 127
    \/ o[1] = 169 /\ o[2] = 254
    \/ o[1] = 192 /\ o[2] = 0 /\ o[3] \in {0, 2}
    \/ o[1] = 192 /\ o[2] = 88 /\ o[3] = 99
    \/ o[1] = 198 /\ o[2] \in {18, 19}
    \/ o[1] = 198 /\ o[2] = 51 /\ o[3] = 100
    \/ o[1] = 203 /\ o[2] = 0 /\ o[3] = 113
    \/ o[1] \in 224..255

\* class D or E: the first octet starts with the bits 111
InClassDE(o) == o[1] >= 224

PassesPolicyGate(o) == ~InOtherSpecialUse(o) /\ ~InClassDE(o)

\* the default prefix of the classes A, B, C
ClassPrefix(o) == IF o[1] < 128 THEN 8 ELSE IF o[1] < 192 THEN 16 ELSE 24

\* the messages of the two policy errors of create_subnets
PolicyMessages ==
    {"Address reserved for special purpose: " \o special_use_networks[k].description :
         k \in DOMAIN special_use_networks}
    \cup {"Addresses aside the classes A, B and C shouldn't be used for subnetting!"}

OddAddressMessage ==
    "The last octet of a valid network address must be an even number (ends with zero in binary)!"

\* the properties of one subnet with address addr and block size b
SubnetAsClaimed(subnet, addr, b) ==
    /\ AddrValue(subnet.succeeding_addr) = AddInt(addr, Pow2(b))
    /\ AddrValue(subnet.first_host_addr) = AddInt(addr, 1)
    /\ AddrValue(subnet.last_host_addr) = AddInt(AddInt(addr, Pow2(b)), -2)
    /\ AddrValue(subnet.broadcast_addr) = AddInt(AddInt(addr, Pow2(b)), -1)
    /\ IntOfDec(subnet.max_hosts) = Pow2(b) - 2
    /\ IntOfDec(subnet.prefix) = 32 - b

\* the layout of the subnets for the address orig and the blocks b_1 >= b_2 >= ...
LayoutAsClaimed(orig, b, subnets) ==
    /\ \A i \in 1 .. Len(b) - 1 : b[i] >= b[i + 1]
    /\ Len(subnets) = Len(b)
    /\ Len(b) > 0 => AddrValue(subnets[1].addr) = AddrValue(orig)
    /\ \A i \in DOMAIN subnets :
           SubnetAsClaimed(subnets[i], AddrValue(subnets[i].addr), b[i])
    /\ \A i \in 1 .. Len(subnets) - 1 :
           /\ AddrValue(subnets[i + 1].addr) = AddrValue(subnets[i].succeeding_addr)
           /\ AddrLess(AddrValue(subnets[i].addr), AddrValue(subnets[i + 1].addr))
           /\ AddrLess(AddrValue(subnets[i].broadcast_addr),
                       AddrValue(subnets[i + 1].addr))

\* build("192.168.1.0", [2,2]): 192.168.1.0/30 with hosts .1-.2, broadcast .3
\* and 192.168.1.4/30 with hosts .5-.6, broadcast .7
ExampleAsClaimed(orig, blocks, subnets) ==
    (orig = OctetStrOf(<<192, 168, 1, 0>>) /\ blocks = <<2, 2>>) =>
        /\ Len(subnets) = 2
        /\ subnets[1].addr = OctetStrOf(<<192, 168, 1, 0>>)
        /\ subnets[1].prefix = Dec(30)
        /\ subnets[1].first_host_addr = OctetStrOf(<<192, 168, 1, 1>>)
        /\ subnets[1].last_host_addr = OctetStrOf(<<192, 168, 1, 2>>)
        /\ subnets[1].broadcast_addr = OctetStrOf(<<192, 168, 1, 3>>)
        /\ subnets[2].addr = OctetStrOf(<<192, 168, 1, 4>>)
        /\ subnets[2].prefix = Dec(30)
        /\ subnets[2].first_host_addr = OctetStrOf(<<192, 168, 1, 5>>)
        /\ subnets[2].last_host_addr = OctetStrOf(<<192, 168, 1, 6>>)
        /\ subnets[2].broadcast_addr = OctetStrOf(<<192, 168, 1, 7>>)

\* C4: when create_subnets returns, the list it returns has one subnet per
\* block, the blocks taken in descending order; the first subnet starts at
\* the original address; each subnet has successor = addr + 2^b, first host
\* = addr + 1, last host = successor - 2, broadcast = successor - 1, max
\* hosts = 2^b - 2, prefix = 32 - b; each subnet starts at the successor of
\* the one before, so the subnets ascend, are contiguous and disjoint; and
\* "192.168.1.0" with [2,2] gives the two /30 subnets of the example.
C4_DeterministicLayout ==
    [][(BuildCalled /\ raised' = "None") =>
           /\ LayoutAsClaimed(orig_ip, SortDesc(host_blocks_len), final_subnets')
           /\ ExampleAsClaimed(orig_ip, host_blocks_len, final_subnets')]_vars

\* C4 witness: three subnets were laid out from 10.0.0.0, the first of
\* 2^17 addresses, the last of 4
C4_Witness ==
    /\ BuildReturned
    /\ orig_ip = OctetStrOf(<<10, 0, 0, 0>>)
    /\ host_blocks_len = <<17, 7, 2>>
    /\ Len(final_subnets) = 3
    /\ final_subnets[3].addr = OctetStrOf(<<10, 2, 0, 128>>)

\* whether the last octet of the address is odd
OddOctets(o) == o[4] % 2 = 1

\* whether the fit analysis accepts the list: at least 2 entries, each of
\* at least 2 bits
AcceptedBlockList(list) == Len(list) >= 2 /\ \A i \in DOMAIN list : list[i] >= 2

\* C8 as stated: for a well-formed address with an odd last octet,
\* create_subnets raises ValueError and returns no subnets, whatever the
\* block list.
C8_OddAddressOriginal ==
    (pc = "done" /\ WellFormedAddress(orig_ip) /\ OddOctets(OctetsOf(orig_ip))) =>
        (raised = "ValueError" /\ final_subnets = <<>>)

\* the outcome of a call with the odd address of octets o and the list
OddOutcomeByCheckOrder(o, list, raised_class, message, subnets) ==
    /\ raised_class # "None"
    /\ subnets = <<>>
    /\ ~PassesPolicyGate(o) =>
           (raised_class = "UserWarning" /\ message \in PolicyMessages)
    /\ (PassesPolicyGate(o) /\ ~AcceptedBlockList(list)) =>
           (raised_class = "ValueError" /\ message # OddAddressMessage)
    /\ (PassesPolicyGate(o) /\ AcceptedBlockList(list)
            /\ ~investigate_network_block_fit(ClassPrefix(o), list).ok) =>
           (raised_class = "UserWarning" /\ message \notin PolicyMessages)
    /\ (PassesPolicyGate(o) /\ AcceptedBlockList(list)
            /\ investigate_network_block_fit(ClassPrefix(o), list).ok) =>
           (raised_class = "ValueError" /\ message = OddAddressMessage)

\* C8: for a well-formed address with an odd last octet, create_subnets
\* returns no subnets and raises: the ValueError for the odd address when
\* the address passes the policy gate and the block list is accepted by the
\* fit analysis and fits; otherwise the error of the earlier check:
\* UserWarning for the policy gate, ValueError for a list the fit analysis
\* does not accept, UserWarning for a list that does not fit.
C8_OddAddress ==
    [][(BuildCalled /\ WellFormedAddress(orig_ip) /\ OddOctets(OctetsOf(orig_ip))) =>
           OddOutcomeByCheckOrder(OctetsOf(orig_ip), host_blocks_len, raised',
                               raised_message', final_subnets')]_vars

\* C8 witness: the call with "10.0.0.1" and a fitting list raised the
\* ValueError for the odd address
C8_Witness ==
    /\ pc = "done"
    /\ orig_ip = OctetStrOf(<<10, 0, 0, 1>>)
    /\ host_blocks_len = <<7, 2>>
    /\ raised = "ValueError"
    /\ raised_message = OddAddressMessage
    /\ final_subnets = <<>>

\* the outcome of a call with the well-formed address of octets o
GateAsClaimed(o, list_before, list_after, raised_class, message, subnets) ==
    /\ (raised_class = "UserWarning" /\ message \in PolicyMessages)
           <=> (InOtherSpecialUse(o) \/ InClassDE(o))
    /\ (InOtherSpecialUse(o) \/ InClassDE(o)) =>
           (list_after = list_before /\ subnets = <<>>)
    /\ raised_class = "None" =>
           \A i \in DOMAIN subnets :
               /\ subnets[i].annotation = subnets[1].annotation
               /\ (subnets[i].annotation # "") <=> InRFC1918(o)

\* what investigate_special_use reports for the well-formed address of octets o
SpecialUseAsClaimed(o, special) ==
    /\ special.raised = "None"
    /\ special.is_special <=> (InRFC1918(o) \/ InOtherSpecialUse(o))
    /\ special.apt <=> ~InOtherSpecialUse(o)
    /\ ~special.is_special => special.description = ""

\* C9: for a well-formed address, create_subnets raises the UserWarning of
\* the policy gate, with the block list untouched by the fit analysis, if
\* and only if the address is in a special-use network other than the RFC
\* 1918 ranges or of class D or E; the special-use check reports (False,
\* True, "") for an address that matches no entry and apt only outside the
\* other special-use networks; every subnet returned carries the same
\* annotation, non-empty exactly for an address in RFC 1918 space.
C9_PolicyGate ==
    [][(BuildCalled /\ WellFormedAddress(orig_ip)) =>
           /\ GateAsClaimed(OctetsOf(orig_ip), host_blocks_len, host_blocks_len',
                            raised', raised_message', final_subnets')
           /\ SpecialUseAsClaimed(OctetsOf(orig_ip),
                                  investigate_special_use(orig_ip))]_vars

\* C9 witness: the call with "198.19.255.0", inside 198.18.0.0/15, raised
\* the UserWarning that carries the description of that network
C9_Witness ==
    /\ pc = "done"
    /\ orig_ip = OctetStrOf(<<198, 19, 255, 0>>)
    /\ host_blocks_len = <<2, 7>>
    /\ raised = "UserWarning"
    /\ raised_message = "Address reserved for special purpose: Network Interconnect Device Benchmarking Testing (RFC 2544)"

---------------------------------------------------------------------------
(* Claims about the mask conversions (checked under SpecMask).             *)

\* C11: convert_prefix_to_mask returns a mask for every prefix in 8..30 and
\* raises ValueError for every other prefix; the mask of a prefix in 8..30
\* is accepted by is_netmask_well_formed, and convert_mask_to_prefix turns
\* it back into the prefix.
C11_PrefixMaskRoundTrip ==
    [][/\ (pc = "ready" /\ pc' # "ready") =>
              IF prefix_arg \in 8..30
              THEN raised' = "None" /\ pc' = "masked"
              ELSE raised' = "ValueError" /\ netmask' = <<>> /\ pc' = "done"
       /\ (pc = "masked" /\ pc' = "checked" /\ prefix_arg \in 8..30) => is_netmask_ok'
       /\ (pc = "checked" /\ pc' = "done" /\ prefix_arg \in 8..30) =>
              (raised' = "None" /\ mask_prefix' = prefix_arg)]_vars

\* C11 witness: prefix 17 went to "255.255.128.0" and back
C11_Witness ==
    /\ pc = "done"
    /\ prefix_arg = 17
    /\ netmask = OctetStrOf(<<255, 255, 128, 0>>)
    /\ is_netmask_ok
    /\ mask_prefix = 17
    /\ raised = "None"

\* the 32-bit number of p ones followed by 32 - p zeros, as <<hi, lo>>
OnesThenZeros(p) ==
    IF p <= 16 THEN <<65536 - Pow2(16 - p), 0>> ELSE <<65535, 65536 - Pow2(32 - p)>>

\* a well-formed address whose bits are a run of 8 to 30 ones, then zeros
MaskAsClaimed(str) ==
    /\ WellFormedAddress(str)
    /\ \E p \in 8..30 : AddrValue(str) = OnesThenZeros(p)

\* C12: is_netmask_well_formed answers True exactly for the strings that
\* are a well-formed address (four octets, each 0-255) whose 32 bits are a
\* run of ones followed by a run of zeros with 8 to 30 ones; it answers
\* False for 255.0.255.0, where a zero bit precedes a one bit; it raises
\* nothing.
C12_MaskWellFormed ==
    (pc \in {"checked", "done"}) =>
        /\ is_netmask_ok <=> MaskAsClaimed(netmask)
        /\ netmask = OctetStrOf(<<255, 0, 255, 0>>) => ~is_netmask_ok
        /\ pc = "checked" => raised = "None"

\* C12 witness: "255.255.252.0" was tested and accepted
C12_Witness ==
    /\ pc = "checked"
    /\ prefix_arg = 0
    /\ netmask = OctetStrOf(<<255, 255, 252, 0>>)
    /\ is_netmask_ok

---------------------------------------------------------------------------
(* Claims about the checks of an address (checked under SpecGate).         *)

\* the entries of the special-use table that match the address a
MatchingEntries(a) ==
    {k \in DOMAIN special_use_networks : MatchesSpecialUse(a, k)}

\* C13: at most one entry of the special-use table matches an address
\* (address AND entry mask = entry network), and every entry is the one
\* reported for some address: the address of the entry's own network is
\* reported with the entry's description and flag.
C13_SpecialUseDisjoint ==
    (pc = "investigated" /\ raised = "None") =>
        /\ Cardinality(MatchingEntries(AddrValue(orig_ip))) <= 1
        /\ \A k \in DOMAIN special_use_networks :
               orig_ip = OctetStrOf(special_use_networks[k].octets) =>
                   /\ is_special_use_case
                   /\ description = special_use_networks[k].description
                   /\ is_apt_for_subnetting = special_use_networks[k].apt

\* the class and default prefix of a first octet
ClassAsClaimed(first_octet) ==
    IF first_octet \in 0..127 THEN <<"A", 8>>
    ELSE IF first_octet \in 128..191 THEN <<"B", 16>>
    ELSE IF first_octet \in 192..223 THEN <<"C", 24>>
    ELSE IF first_octet \in 224..239 THEN <<"D", 0>>
    ELSE <<"E", 0>>

\* block lists that fit a /8 and a /16 but not a /24, and a /8 only
ProbeBlockLists == {<<9, 2>>, <<17, 2>>}

\* whether create_subnets fails because the blocks do not fit
BuildReportsNoFit(addr, list) ==
    create_subnets(addr, list).message = "Sorry, some of your demanded subnets won't fit!"

\* C17: get_addr_class returns (A, 8), (B, 16), (C, 24), (D, 0), (E, 0)
\* for a first octet in 0-127, 128-191, 192-223, 224-239, 240-255 of a
\* well-formed address and raises ValueError for a malformed one;
\* classify("223.1.1.1") = (C, 24), classify("10.0.0.1") = (A, 8),
\* classify("191.255.0.0") = (B, 16); for an address that passes the
\* policy gate, create_subnets reports that blocks do not fit exactly when
\* they do not fit the prefix returned.
C17_AddressClass ==
    pc = "classified" =>
        /\ WellFormedAddress(orig_ip) =>
               /\ raised = "None"
               /\ <<orig_addr_class, class_prefix>> = ClassAsClaimed(OctetsOf(orig_ip)[1])
               /\ PassesPolicyGate(OctetsOf(orig_ip)) =>
                      \A list \in ProbeBlockLists :
                          BuildReportsNoFit(orig_ip, list)
                              <=> ~investigate_network_block_fit(class_prefix, list).ok
        /\ ~WellFormedAddress(orig_ip) => raised = "ValueError"
        /\ orig_ip = OctetStrOf(<<223, 1, 1, 1>>) =>
               <<orig_addr_class, class_prefix>> = <<"C", 24>>
        /\ orig_ip = OctetStrOf(<<10, 0, 0, 1>>) =>
               <<orig_addr_class, class_prefix>> = <<"A", 8>>
        /\ orig_ip = OctetStrOf(<<191, 255, 0, 0>>) =>
               <<orig_addr_class, class_prefix>> = <<"B", 16>>

\* C17 witness: "191.255.0.0" was classified as (B, 16)
C17_Witness ==
    /\ pc = "classified"
    /\ orig_ip = OctetStrOf(<<191, 255, 0, 0>>)
    /\ orig_addr_class = "B"
    /\ class_prefix = 16
    /\ raised = "None"

---------------------------------------------------------------------------
(* Further claims about the fit analysis (checked under SpecFit).          *)

\* the records of the returned fault list for the entry at 1-based position n
FaultsOf(n) == {i \in DOMAIN faulty_host_blocks : faulty_host_blocks[i][1] = n}

\* whether the block at position n is larger than the host part of the network
Collides(n) == 32 - required_host_blocks_len[n] < orig_prefix

C15_ExplosionRecord ==
    FitReturned =>
        \A i \in DOMAIN faulty_host_blocks :
            LET n == faulty_host_blocks[i][1]
                b == required_host_blocks_len[n]
                availableSubnetBits == (32 - b) - orig_prefix
                requiredSubnetBits == BitLength(Count(required_host_blocks_len, b) - 1)
            IN  ~Collides(n) =>
                    faulty_host_blocks[i] =
                        <<n, b, 0, availableSubnetBits,
                          requiredSubnetBits - availableSubnetBits>>

\* whether the fit analysis raises for the arguments, entries below
\* `least` bits being refused
RaisesAsClaimed(least) ==
    \/ orig_prefix \notin 8..30
    \/ Len(required_host_blocks_len) < 2
    \/ \E i \in DOMAIN required_host_blocks_len : required_host_blocks_len[i] < least

\* C16 as stated: the call raises (ValueError) exactly when origPrefix is
\* outside 8..30, the list has fewer than 2 entries or an entry is smaller
\* than 1 bit; otherwise it returns, with fits true iff the fault list is empty.
C16_InputValidationOriginal ==
    pc = "done" =>
        /\ raised = (IF RaisesAsClaimed(1) THEN "ValueError" ELSE "None")
        /\ raised = "None" =>
               (has_investigation_been_successful <=> faulty_host_blocks = <<>>)

\* C16: the call raises (ValueError) exactly when origPrefix is outside
\* 8..30, the list has fewer than 2 entries or an entry is smaller than 2
\* bits; otherwise it returns, with fits true iff the fault list is empty.
C16_InputValidation ==
    pc = "done" =>
        /\ raised = (IF RaisesAsClaimed(2) THEN "ValueError" ELSE "None")
        /\ raised = "None" =>
               (has_investigation_been_successful <=> faulty_host_blocks = <<>>)

\* C16 witness: a list of two or more entries, one of them of 1 bit, was
\* refused for a prefix in 8..30
C16_Witness ==
    /\ pc = "done"
    /\ orig_prefix \in 8..30
    /\ Len(required_host_blocks_len) >= 2
    /\ \E i \in DOMAIN required_host_blocks_len : required_host_blocks_len[i] = 1
    /\ raised = "ValueError"

\* C19: for a prefix in 8..30 and a list of at least 2 blocks of at least 2
\* bits each, if the sum of 2^b over the blocks is at most 2^(32 -
\* origPrefix) then the analysis answers "fits" with an empty fault list.
C19_FeasibleFits ==
    (/\ pc = "done"
     /\ ~RaisesAsClaimed(2)
     /\ SumPow2(required_host_blocks_len) <= Pow2(32 - orig_prefix))
        => /\ raised = "None"
           /\ has_investigation_been_successful
           /\ faulty_host_blocks = <<>>

\* C19 witness: blocks that fill the network exactly were found to fit
C19_Witness ==
    /\ FitReturned
    /\ Len(required_host_blocks_len) >= 3
    /\ SumPow2(required_host_blocks_len) = Pow2(32 - orig_prefix)
    /\ has_investigation_been_successful

\* C20: every fault record has a host overlap >= 0 and an explosion overlap
\* >= 0, one of the two above 0.
C20_FaultQuantified ==
    FitReturned =>
        \A i \in DOMAIN faulty_host_blocks :
            /\ faulty_host_blocks[i][3] >= 0
            /\ faulty_host_blocks[i][5] >= 0
            /\ faulty_host_blocks[i][3] > 0 \/ faulty_host_blocks[i][5] > 0

---------------------------------------------------------------------------
(* Further claims about the subnet builder (checked under SpecBuild).      *)

\* whether the b lowest bits of the address <<hi, lo>> are zero
HostBitsZero(a, b) ==
    IF b <= 16 THEN a[2] % Pow2(b) = 0
    ELSE a[2] = 0 /\ a[1] % Pow2(b - 16) = 0

\* C18: every subnet of a returned plan is a CIDR network: the address of
\* the subnet with block size b has its b host bits zero (addr mod 2^b = 0).
C18_SubnetAligned ==
    BuildReturned =>
        \A i \in DOMAIN final_subnets :
            HostBitsZero(AddrValue(final_subnets[i].addr), host_blocks_len[i])

=============================================================================
